---- MODULE Spec2Model ----
(***************************************************************************)
(* The trip detour ranking service: POST /matches/ranked and               *)
(* POST /matches/calendar-check behind the requireApiKey middleware, with  *)
(* the Google Maps Distance Matrix helper they share.                      *)
(*                                                                         *)
(* One behaviour serves one HTTP request.  A step is the synchronous part  *)
(* of a handler (from the middleware to its first await, or to its         *)
(* response), one of the two awaits of a distanceMatrix call coming back   *)
(* (`await fetch`, then `await resp.json()`; a rejection rejects           *)
(* Promise.all and runs the catch block in the same step, since microtasks *)
(* run before any other provider response is delivered), or the            *)
(* continuation of a handler after its Promise.all has fulfilled.          *)
(*                                                                         *)
(* POST /scrape-luma-event is modelled by its control flow: the checks on  *)
(* the URL, then the awaits of its try block one at a time, each of which  *)
(* may reject and send the handler to its catch block; what is extracted   *)
(* from the page is left opaque.                                           *)
(***************************************************************************)
EXTENDS Integers, Sequences, FiniteSets, Bags, TLC

VARIABLES
    apiKeyEnv,      \* process.env.API_KEY
    mapsKeyEnv,     \* process.env.GOOGLE_MAPS_API_KEY
    pc,             \* "idle" | "awaiting" | "responded", or the await the scraper is at
    route,          \* the endpoint the request was posted to
    xApiKey,        \* req.headers["x-api-key"]
    body,           \* req.body as destructured by the handler that ran
    tripIndex,      \* calendar-check: position of the for...of loop (1-based)
    results,        \* calendar-check: the results array built so far
    lookups,        \* the two distanceMatrix promises of the current Promise.all
    callLog,        \* every distanceMatrix invocation of this request, in order
    response,       \* what res.status(..).json(..) sent
    browser         \* scrape-luma-event: "none" | "open" | "closed"

vars == <<apiKeyEnv, mapsKeyEnv, pc, route, xApiKey, body, tripIndex, results,
          lookups, callLog, response, browser>>

----------------------------------------------------------------------------
(* Bounds of the model *)

MaxCandidates == 2
MaxTrips == 2
MaxBatchCandidates == 4

----------------------------------------------------------------------------
(* JavaScript / JSON values *)

Undefined == [t |-> "undefined"]
Null == [t |-> "null"]
Num(n) == [t |-> "number", v |-> n]
Str(s) == [t |-> "string", s |-> s]
Arr(items) == [t |-> "array", items |-> items]

\* Mutant: the truthiness test `!v`, which also rejects the number 0.
IsNullish_Falsy(v) ==
    v.t \in {"undefined", "null"} \/ (v.t = "number" /\ v.v = 0)

\* v == null
IsNullish(v) == v.t \in {"undefined", "null"}

\* !v
Falsy(v) ==
    \/ IsNullish(v)
    \/ (v.t = "number" /\ v.v = 0)
    \/ (v.t = "string" /\ v.s = "")

Min(S) == CHOOSE m \in S : \A n \in S : m <= n

----------------------------------------------------------------------------
(* requireApiKey *)

NoKey == "<unset>"

\* !process.env.X for an environment variable: unset, or set to "".
EnvFalsy(value) == value = NoKey \/ value = ""

\* Mutant: only a header that is present and wrong is refused.
requireApiKey_MissingPasses(provided) ==
    IF EnvFalsy(apiKeyEnv) THEN "next"
    ELSE IF provided # Undefined /\ provided # Str(apiKeyEnv) THEN "401"
    ELSE "next"

requireApiKey(provided) ==
    IF EnvFalsy(apiKeyEnv) THEN "next"
    ELSE IF provided # Str(apiKeyEnv) THEN "401"
    ELSE "next"

Json(status, payload) == [status |-> status, body |-> payload]

NoResponse == [status |-> "none"]

Unauthorized == Json("401", [success |-> FALSE, error |-> "Invalid or missing API key"])

----------------------------------------------------------------------------
(* distanceMatrix *)

MissingKeyMessage == "GOOGLE_MAPS_API_KEY is not configured"

NoLookup == [st |-> "none"]

\* The part of distanceMatrix that runs synchronously inside the call: the
\* credentials check, then the request handed to fetch.
distanceMatrix(origins, destinations) ==
    IF EnvFalsy(mapsKeyEnv)
    THEN [st |-> "rejected", origins |-> origins, destinations |-> destinations,
          fetched |-> FALSE, error |-> MissingKeyMessage]
    ELSE [st |-> "pending", awaiting |-> "fetch", origins |-> origins,
          destinations |-> destinations, fetched |-> TRUE]

\* `const resp = await fetch(..)` has resolved: the function is suspended at
\* `await resp.json()` and its promise is still pending.
distanceMatrixFetched(lookup) == [lookup EXCEPT !.awaiting = "json"]

\* data.error_message || ""
ErrorMessageOf(data) ==
    IF "error_message" \in DOMAIN data THEN data.error_message ELSE ""

\* distanceMatrix settles: one of its two awaits has thrown, or resp.json()
\* has resolved with `data`.
distanceMatrixSettle(lookup, outcome) ==
    IF outcome.kind = "throw"
    THEN [st |-> "rejected", origins |-> lookup.origins,
          destinations |-> lookup.destinations, fetched |-> TRUE,
          error |-> outcome.message]
    ELSE IF outcome.data.status # "OK"
    THEN [st |-> "rejected", origins |-> lookup.origins,
          destinations |-> lookup.destinations, fetched |-> TRUE,
          \* the source separates status and message with " \u2013 "
          error |-> "Distance Matrix API error: " \o outcome.data.status
                    \o " - " \o ErrorMessageOf(outcome.data)]
    ELSE [st |-> "fulfilled", origins |-> lookup.origins,
          destinations |-> lookup.destinations, fetched |-> TRUE,
          data |-> outcome.data]

\* The provider: what one outbound request can come back with.
LegDurations == {0, 1700}

Cells ==
    {[status |-> "OK", duration |-> [value |-> d]] : d \in LegDurations}
    \cup {[status |-> "ZERO_RESULTS"]}

Grids(nOrigins, nDestinations) ==
    [1..nOrigins -> {[elements |-> e] : e \in [1..nDestinations -> Cells]}]

\* What `await fetch(..)` can come to: the request fails, or a response.
FetchOutcomes ==
    {[kind |-> "throw", message |-> "fetch failed"], [kind |-> "response"]}

\* What `await resp.json()` can come to: the body is no JSON, or the parsed
\* body of the provider.
BodyOutcomes(lookup) ==
    {[kind |-> "throw", message |-> "Unexpected end of JSON input"]}
    \cup {[kind |-> "json",
           data |-> [status |-> "REQUEST_DENIED",
                     error_message |-> "The provided API key is invalid."]],
          [kind |-> "json", data |-> [status |-> "OVER_QUERY_LIMIT"]]}
    \cup {[kind |-> "json", data |-> [status |-> "OK", rows |-> g]] :
            g \in Grids(Len(lookup.origins), Len(lookup.destinations))}

----------------------------------------------------------------------------
(* Request validation shared by both handlers *)

requiredFields == <<"originLat", "originLng", "destLat", "destLng", "directDuration">>

\* for (const field of requiredFields) if (obj[field] == null) return ...
\* The first field the loop stops at, or "" when the loop runs through.
FirstMissingField(obj) ==
    LET missing == {k \in 1..Len(requiredFields) : IsNullish(obj[requiredFields[k]])}
    IN  IF missing = {} THEN "" ELSE requiredFields[Min(missing)]

\* for (let i = 0; ...) for (const field ...) if (candidates[i][field] == null)
\* The first index (1-based) the loops stop at, or 0.
FirstBadCandidate(items) ==
    LET bad == {i \in 1..Len(items) : FirstMissingField(items[i]) # ""}
    IN  IF bad = {} THEN 0 ELSE Min(bad)

BadRequest(message) == Json("400", [success |-> FALSE, error |-> message])

\* Mutant: the catch block hands out the summaries built before the failure.
ServerError_PartialResults(message) ==
    Json("500", [success |-> FALSE, error |-> message, results |-> results])

ServerError(message) == Json("500", [success |-> FALSE, error |-> message])

\* { lat: x.originLat, lng: x.originLng } and { lat: x.destLat, lng: x.destLng }
OriginOf(trip) == [lat |-> trip.originLat, lng |-> trip.originLng]
DestOf(trip) == [lat |-> trip.destLat, lng |-> trip.destLng]

\* candidates.map((c) => ({ lat: c.originLat, lng: c.originLng })) and its twin
candidateOrigins(items) == [i \in 1..Len(items) |-> OriginOf(items[i])]
candidateDests(items) == [i \in 1..Len(items) |-> DestOf(items[i])]

\* const [toPickup, toDest] = await Promise.all([distanceMatrix(..), distanceMatrix(..)])
\* up to the await: both calls are made, in this order.
IssueLookups(mainTrip, items) ==
    [toPickup |-> distanceMatrix(<<OriginOf(mainTrip)>>, candidateOrigins(items)),
     toDest   |-> distanceMatrix(candidateDests(items), <<DestOf(mainTrip)>>)]

LogOf(issued, trip) ==
    <<[trip |-> trip, leg |-> "toPickup", fetched |-> issued.toPickup.fetched],
      [trip |-> trip, leg |-> "toDest", fetched |-> issued.toDest.fetched]>>

Legs == {"toPickup", "toDest"}

\* Promise.all rejects with the first rejection in array order when both
\* promises are already rejected.
FirstRejection(lk) ==
    IF lk.toPickup.st = "rejected" THEN lk.toPickup.error ELSE lk.toDest.error

----------------------------------------------------------------------------
(* POST /matches/ranked *)

\* Mutant: a negative detour is clamped to 0.
Detour_Clamped(leg1, candidateDirect, leg2, mainDirect) ==
    IF leg1 + candidateDirect + leg2 - mainDirect < 0 THEN 0
    ELSE leg1 + candidateDirect + leg2 - mainDirect

\* leg1 + candidate.directDuration + leg2 - mainTrip.directDuration
Detour(leg1, candidateDirect, leg2, mainDirect) ==
    leg1 + candidateDirect + leg2 - mainDirect

\* Mutant: a leg the provider cannot route counts as a leg of 0 seconds.
MatchOf_DefaultLeg(mainTrip, candidate, i, toPickup, toDest) ==
    LET leg1Element == toPickup.rows[1].elements[i]
        leg2Element == toDest.rows[i].elements[1]
        leg1 == IF leg1Element.status = "OK" THEN leg1Element.duration.value ELSE 0
        leg2 == IF leg2Element.status = "OK" THEN leg2Element.duration.value ELSE 0
    IN  [id |-> candidate.id,
         detourSeconds |-> Num(Detour(leg1, candidate.directDuration.v, leg2,
                                      mainTrip.directDuration.v))]

\* The callback of candidates.map((candidate, i) => ...), i 1-based here.
MatchOf(mainTrip, candidate, i, toPickup, toDest) ==
    LET leg1Element == toPickup.rows[1].elements[i]
        leg2Element == toDest.rows[i].elements[1]
    IN  IF leg1Element.status # "OK" \/ leg2Element.status # "OK"
        THEN [id |-> candidate.id, detourSeconds |-> Null, error |-> "Route not found"]
        ELSE [id |-> candidate.id,
              detourSeconds |-> Num(Detour(leg1Element.duration.value,
                                           candidate.directDuration.v,
                                           leg2Element.duration.value,
                                           mainTrip.directDuration.v))]

\* Mutant: candidates the provider cannot route are left out of the list.
ComputeMatches_SkipUnroutable(mainTrip, items, toPickup, toDest) ==
    LET all == [i \in 1..Len(items) |-> MatchOf(mainTrip, items[i], i, toPickup, toDest)]
        Scored(m) == ~IsNullish(m.detourSeconds)
    IN  SelectSeq(all, Scored)

ComputeMatches(mainTrip, items, toPickup, toDest) ==
    [i \in 1..Len(items) |-> MatchOf(mainTrip, items[i], i, toPickup, toDest)]

\* Mutant: the subtraction alone, null treated as the number 0.
compareMatches_NullAsZero(a, b) ==
    (IF IsNullish(a.detourSeconds) THEN 0 ELSE a.detourSeconds.v)
    - (IF IsNullish(b.detourSeconds) THEN 0 ELSE b.detourSeconds.v)

\* Mutant: the branch for two null detours is missing.
compareMatches_NoTieBranch(a, b) ==
    IF IsNullish(a.detourSeconds) THEN 1
    ELSE IF IsNullish(b.detourSeconds) THEN -1
    ELSE a.detourSeconds.v - b.detourSeconds.v

\* The comparator handed to matches.sort
compareMatches(a, b) ==
    IF IsNullish(a.detourSeconds) /\ IsNullish(b.detourSeconds) THEN 0
    ELSE IF IsNullish(a.detourSeconds) THEN 1
    ELSE IF IsNullish(b.detourSeconds) THEN -1
    ELSE a.detourSeconds.v - b.detourSeconds.v

\* Array.prototype.sort: a stable sort.  An element moves in front of the
\* elements before it only while the comparator says they are greater.
RECURSIVE InsertMatch(_, _)
InsertMatch(sorted, x) ==
    IF sorted = <<>> THEN <<x>>
    ELSE LET last == sorted[Len(sorted)]
         IN  IF compareMatches(last, x) > 0
             THEN InsertMatch(SubSeq(sorted, 1, Len(sorted) - 1), x) \o <<last>>
             ELSE sorted \o <<x>>

RECURSIVE SortMatches(_)
SortMatches(matches) ==
    IF matches = <<>> THEN <<>>
    ELSE InsertMatch(SortMatches(SubSeq(matches, 1, Len(matches) - 1)),
                     matches[Len(matches)])

\* The handler from its first line to the Promise.all: the response it sends
\* without calling the gateway, or NoResponse when it goes on to the lookups.
RankedEarlyResponse(mainTrip, candidates) ==
    IF Falsy(mainTrip) \/ Falsy(candidates)
    THEN BadRequest("Request body must include mainTrip and candidates")
    ELSE IF FirstMissingField(mainTrip) # ""
    THEN BadRequest("mainTrip is missing required field: " \o FirstMissingField(mainTrip))
    ELSE IF Len(candidates.items) = 0
    THEN Json("200", [success |-> TRUE, matches |-> <<>>])
    ELSE IF FirstBadCandidate(candidates.items) # 0
    THEN LET i == FirstBadCandidate(candidates.items)
         IN  BadRequest("candidates[" \o ToString(i - 1)
                        \o "] is missing required field: "
                        \o FirstMissingField(candidates.items[i]))
    ELSE NoResponse

\* Mutant: a cell without a duration makes the scoring throw and the catch
\* block answer.
RankedResponse_AbortOnUnroutable(mainTrip, items, toPickup, toDest) ==
    IF \E i \in 1..Len(items) :
          \/ toPickup.rows[1].elements[i].status # "OK"
          \/ toDest.rows[i].elements[1].status # "OK"
    THEN ServerError("Cannot read properties of undefined (reading 'value')")
    ELSE Json("200", [success |-> TRUE,
                      matches |-> SortMatches(ComputeMatches(mainTrip, items, toPickup, toDest))])

\* The handler after the await: scoring, sorting, the success response.
RankedResponse(mainTrip, items, toPickup, toDest) ==
    Json("200", [success |-> TRUE,
                 matches |-> SortMatches(ComputeMatches(mainTrip, items, toPickup, toDest))])

----------------------------------------------------------------------------
(* POST /matches/calendar-check *)

DefaultDetourThreshold == 1800

\* Mutant: the threshold of the request is ignored.
ThresholdOf_AlwaysDefault(detourThreshold) == DefaultDetourThreshold

\* const { trips, detourThreshold = 1800 } = req.body
ThresholdOf(detourThreshold) ==
    IF detourThreshold.t = "undefined" THEN DefaultDetourThreshold ELSE detourThreshold.v

\* Mutant: the threshold is exclusive.
AggregateStep_Exclusive(acc, mainTrip, candidate, i, toPickup, toDest, threshold) ==
    LET leg1Element == toPickup.rows[1].elements[i]
        leg2Element == toDest.rows[i].elements[1]
    IN  IF leg1Element.status # "OK" \/ leg2Element.status # "OK" THEN acc
        ELSE LET detour == Detour(leg1Element.duration.value,
                                  candidate.directDuration.v,
                                  leg2Element.duration.value,
                                  mainTrip.directDuration.v)
             IN  IF detour < threshold
                 THEN [matchCount |-> acc.matchCount + 1,
                       bestDetour |-> IF IsNullish(acc.bestDetour) \/ detour < acc.bestDetour.v
                                      THEN Num(detour) ELSE acc.bestDetour]
                 ELSE acc

\* The body of `for (let i = 0; i < candidates.length; i++)`, i 1-based here,
\* acting on the accumulators matchCount and bestDetour.
AggregateStep(acc, mainTrip, candidate, i, toPickup, toDest, threshold) ==
    LET leg1Element == toPickup.rows[1].elements[i]
        leg2Element == toDest.rows[i].elements[1]
    IN  IF leg1Element.status # "OK" \/ leg2Element.status # "OK" THEN acc
        ELSE LET detour == Detour(leg1Element.duration.value,
                                  candidate.directDuration.v,
                                  leg2Element.duration.value,
                                  mainTrip.directDuration.v)
             IN  IF detour <= threshold
                 THEN [matchCount |-> acc.matchCount + 1,
                       bestDetour |-> IF IsNullish(acc.bestDetour) \/ detour < acc.bestDetour.v
                                      THEN Num(detour) ELSE acc.bestDetour]
                 ELSE acc

RECURSIVE Aggregate(_, _, _, _, _, _)
Aggregate(mainTrip, items, n, toPickup, toDest, threshold) ==
    IF n = 0 THEN [matchCount |-> 0, bestDetour |-> Null]
    ELSE AggregateStep(Aggregate(mainTrip, items, n - 1, toPickup, toDest, threshold),
                       mainTrip, items[n], n, toPickup, toDest, threshold)

\* results.push({ id, hasMatch: matchCount > 0, matchCount, bestDetour })
SummaryOf(mainTrip, acc) ==
    [id |-> mainTrip.id, hasMatch |-> acc.matchCount > 0,
     matchCount |-> acc.matchCount, bestDetour |-> acc.bestDetour]

EmptySummary(mainTrip) ==
    [id |-> mainTrip.id, hasMatch |-> FALSE, matchCount |-> 0, bestDetour |-> Null]

\* Mutant: the candidates of a group are not checked field by field.
GroupError_NoCandidateFields(group) ==
    IF Falsy(group.mainTrip) \/ Falsy(group.candidates)
    THEN " must include mainTrip and candidates"
    ELSE IF FirstMissingField(group.mainTrip) # ""
    THEN ".mainTrip is missing required field: " \o FirstMissingField(group.mainTrip)
    ELSE ""

\* The checks made on trips[t] inside "Validate all trips up front": the tail
\* of the error message, or "" when the group passes.
GroupError(group) ==
    IF Falsy(group.mainTrip) \/ Falsy(group.candidates)
    THEN " must include mainTrip and candidates"
    ELSE IF FirstMissingField(group.mainTrip) # ""
    THEN ".mainTrip is missing required field: " \o FirstMissingField(group.mainTrip)
    ELSE IF FirstBadCandidate(group.candidates.items) # 0
    THEN LET c == FirstBadCandidate(group.candidates.items)
         IN  ".candidates[" \o ToString(c - 1) \o "] is missing required field: "
             \o FirstMissingField(group.candidates.items[c])
    ELSE ""

\* The handler from its first line to the processing loop.
CalendarEarlyResponse(trips) ==
    IF Falsy(trips) \/ trips.t # "array" \/ Len(trips.items) = 0
    THEN BadRequest("Request body must include a non-empty trips array")
    ELSE LET bad == {t \in 1..Len(trips.items) : GroupError(trips.items[t]) # ""}
         IN  IF bad = {} THEN NoResponse
             ELSE BadRequest("trips[" \o ToString(Min(bad) - 1) \o "]"
                             \o GroupError(trips.items[Min(bad)]))

\* Mutant: a group without candidates goes to the lookups like any other.
CalendarLoop_LookupEmpty(items, k, done) ==
    IF k > Len(items) THEN [at |-> k, results |-> done, awaits |-> FALSE]
    ELSE [at |-> k, results |-> done, awaits |-> TRUE]

\* Mutant: a group without candidates is skipped without a summary.
RECURSIVE CalendarLoop_SkipEmpty(_, _, _)
CalendarLoop_SkipEmpty(items, k, done) ==
    IF k > Len(items) THEN [at |-> k, results |-> done, awaits |-> FALSE]
    ELSE IF Len(items[k].candidates.items) = 0
    THEN CalendarLoop_SkipEmpty(items, k + 1, done)
    ELSE [at |-> k, results |-> done, awaits |-> TRUE]

\* The for...of loop from position k (1-based) with the results built so far,
\* run until it awaits the lookups of a group or falls off the end.
RECURSIVE CalendarLoop(_, _, _)
CalendarLoop(items, k, done) ==
    IF k > Len(items) THEN [at |-> k, results |-> done, awaits |-> FALSE]
    ELSE IF Len(items[k].candidates.items) = 0
    THEN CalendarLoop(items, k + 1, Append(done, EmptySummary(items[k].mainTrip)))
    ELSE [at |-> k, results |-> done, awaits |-> TRUE]

----------------------------------------------------------------------------
(* The requests the model sends *)

Trip(id, originLat, originLng, destLat, destLng, directDuration) ==
    [t |-> "object", id |-> id, originLat |-> originLat, originLng |-> originLng,
     destLat |-> destLat, destLng |-> destLng, directDuration |-> directDuration]

\* The primary trip used at position k of a batch: identifiers differ by
\* position, direct durations alternate between 500 and 0.
MainTripAt(k) ==
    Trip(Str("m" \o ToString(k)), Num(0), Num(k), Num(2), Num(3),
         Num(IF k % 2 = 1 THEN 500 ELSE 0))

MainTrips == {MainTripAt(1), MainTripAt(2)}

CandidateTrips ==
    {Trip(Str(id), Num(10), Num(11), Num(0), Num(13), Num(d)) :
        id \in {"a", "b"}, d \in {0, 600}}

MissingKinds == {Undefined, Null}

\* A trip with one required field absent or null, and one with two.
OneFieldMissing(trip) ==
    {[trip EXCEPT ![requiredFields[k]] = kind] :
        k \in 1..Len(requiredFields), kind \in MissingKinds}

TwoFieldsMissing(trip) == [trip EXCEPT !.originLng = Null, !.destLat = Undefined]

SomeMain == MainTripAt(1)
SomeCandidate == Trip(Str("a"), Num(10), Num(11), Num(0), Num(13), Num(600))

InvalidMainTrips == OneFieldMissing(SomeMain) \cup {TwoFieldsMissing(SomeMain)}

InvalidCandidates ==
    {[SomeCandidate EXCEPT !.destLng = Undefined],
     [SomeCandidate EXCEPT !.directDuration = Null],
     TwoFieldsMissing(SomeCandidate)}

SeqsUpTo(S, n) == UNION {[1..k -> S] : k \in 0..n}

Headers == {Undefined, Str("secret"), Str("wrong")}

RankedBodies ==
    {[mainTrip |-> m, candidates |-> c] :
        m \in MainTrips \cup InvalidMainTrips \cup {Undefined, Null},
        c \in {Arr(s) : s \in SeqsUpTo(CandidateTrips \cup InvalidCandidates, MaxCandidates)}
              \cup {Undefined}}

Group(mainTrip, candidates) ==
    [t |-> "object", mainTrip |-> mainTrip, candidates |-> candidates]

RECURSIVE SumSeq(_)
SumSeq(s) == IF s = <<>> THEN 0 ELSE s[1] + SumSeq(Tail(s))

\* A valid batch is given by its candidate counts: group k has the primary
\* trip MainTripAt(k) and counts[k] candidates.
BatchOf(counts) ==
    [k \in 1..Len(counts) |->
        Group(MainTripAt(k), Arr([i \in 1..counts[k] |-> SomeCandidate]))]

ValidBatches ==
    {BatchOf(counts) :
        counts \in {c \in UNION {[1..n -> 0..MaxCandidates] : n \in 1..MaxTrips} :
                        SumSeq(c) <= MaxBatchCandidates}}

InvalidGroups ==
    {Group(Undefined, Arr(<<SomeCandidate>>)),
     Group(SomeMain, Undefined),
     Group([SomeMain EXCEPT !.destLat = Null], Arr(<<>>)),
     Group(SomeMain, Arr(<<SomeCandidate, [SomeCandidate EXCEPT !.originLat = Undefined]>>))}

\* A valid batch with one group replaced by an invalid one.
InvalidBatches ==
    {[b EXCEPT ![k] = g] : <<b, k>> \in {<<b, k>> \in ValidBatches \X (1..MaxTrips) : k <= Len(b)},
                           g \in InvalidGroups}

Thresholds == {Undefined, Num(600)}

CalendarBodies ==
    {[trips |-> ts, detourThreshold |-> th] :
        ts \in {Arr(s) : s \in ValidBatches \cup InvalidBatches \cup {<<>>}}
               \cup {Undefined, Str("trips")},
        th \in Thresholds}

----------------------------------------------------------------------------
(* Actions *)

Init ==
    /\ apiKeyEnv \in {NoKey, "", "secret"}
    /\ mapsKeyEnv \in {NoKey, "", "maps-key"}
    /\ pc = "idle"
    /\ route = "none"
    /\ xApiKey = Undefined
    /\ body = Undefined
    /\ tripIndex = 0
    /\ results = <<>>
    /\ lookups = [toPickup |-> NoLookup, toDest |-> NoLookup]
    /\ callLog = <<>>
    /\ response = NoResponse
    /\ browser = "none"

\* requireApiKey answers 401: the handler never runs and req.body is never read.
Deny(path, provided) ==
    /\ pc = "idle"
    /\ requireApiKey(provided) = "401"
    /\ pc' = "responded"
    /\ route' = path
    /\ xApiKey' = provided
    /\ response' = Unauthorized
    /\ UNCHANGED <<browser, apiKeyEnv, mapsKeyEnv, body, tripIndex, results, lookups, callLog>>

\* Mutant: one pair of provider requests per candidate instead of one pair
\* per primary trip.
StartLookups_PerCandidate(mainTrip, items, k) ==
    LET issued == IssueLookups(mainTrip, items)
        PerCandidate[n \in 0..Len(items)] ==
            IF n = 0 THEN <<>> ELSE PerCandidate[n - 1] \o LogOf(issued, k)
    IN  /\ lookups' = issued
        /\ callLog' = callLog \o PerCandidate[Len(items)]
        /\ IF \E leg \in Legs : issued[leg].st = "rejected"
           THEN /\ pc' = "responded"
                /\ response' = ServerError(FirstRejection(issued))
           ELSE /\ pc' = "awaiting"
                /\ response' = NoResponse

\* The handler calls both distanceMatrix for one primary trip and awaits
\* Promise.all; with the credentials missing both calls have thrown already
\* and the catch block answers.
StartLookups(mainTrip, items, k) ==
    LET issued == IssueLookups(mainTrip, items)
    IN  /\ lookups' = issued
        /\ callLog' = callLog \o LogOf(issued, k)
        /\ IF \E leg \in Legs : issued[leg].st = "rejected"
           THEN /\ pc' = "responded"
                /\ response' = ServerError(FirstRejection(issued))
           ELSE /\ pc' = "awaiting"
                /\ response' = NoResponse

PostMatchesRanked(provided, reqBody) ==
    /\ pc = "idle"
    /\ requireApiKey(provided) = "next"
    /\ route' = "/matches/ranked"
    /\ xApiKey' = provided
    /\ body' = reqBody
    /\ LET early == RankedEarlyResponse(reqBody.mainTrip, reqBody.candidates)
       IN  IF early # NoResponse
           THEN /\ pc' = "responded"
                /\ response' = early
                /\ UNCHANGED <<lookups, callLog>>
           ELSE StartLookups(reqBody.mainTrip, reqBody.candidates.items, 0)
    /\ UNCHANGED <<browser, apiKeyEnv, mapsKeyEnv, tripIndex, results>>

\* The calendar-check loop entered at position k with `done` as results.
RunCalendarLoop(items, k, done) ==
    LET loop == CalendarLoop(items, k, done)
    IN  /\ tripIndex' = loop.at
        /\ results' = loop.results
        /\ IF loop.awaits
           THEN StartLookups(items[loop.at].mainTrip,
                             items[loop.at].candidates.items, loop.at)
           ELSE /\ pc' = "responded"
                /\ response' = Json("200", [success |-> TRUE, results |-> loop.results])
                /\ UNCHANGED <<lookups, callLog>>

PostCalendarCheck(provided, reqBody) ==
    /\ pc = "idle"
    /\ requireApiKey(provided) = "next"
    /\ route' = "/matches/calendar-check"
    /\ xApiKey' = provided
    /\ body' = reqBody
    /\ LET early == CalendarEarlyResponse(reqBody.trips)
       IN  IF early # NoResponse
           THEN /\ pc' = "responded"
                /\ response' = early
                /\ UNCHANGED <<lookups, callLog, tripIndex, results>>
           ELSE RunCalendarLoop(reqBody.trips.items, 1, <<>>)
    /\ UNCHANGED <<browser, apiKeyEnv, mapsKeyEnv>>

\* A variant that tolerates the failure of one group: the group gets an empty
\* summary and the loop goes on while the other lookup is still in flight.
CatchBlock_SkipGroup(lk, message) ==
    IF route = "/matches/calendar-check"
    THEN RunCalendarLoop(body.trips.items, tripIndex + 1,
                         Append(results, EmptySummary(body.trips.items[tripIndex].mainTrip)))
    ELSE /\ lookups' = lk
         /\ pc' = "responded"
         /\ response' = ServerError(message)
         /\ UNCHANGED <<tripIndex, results, callLog>>

\* A variant that swallows the rejection: the handler keeps awaiting.
CatchBlock_Swallow(lk, message) ==
    /\ lookups' = lk
    /\ UNCHANGED <<pc, response, tripIndex, results, callLog>>

\* The catch block of a handler whose Promise.all has rejected while it was
\* awaited: `lk` are the two promises at that moment, `message` the error's.
CatchBlock(lk, message) ==
    /\ lookups' = lk
    /\ pc' = "responded"
    /\ response' = ServerError(message)
    /\ UNCHANGED <<tripIndex, results, callLog>>

\* The promise of one distanceMatrix call takes the state `next`.  A rejection
\* while the handler awaits Promise.all rejects the Promise.all at once and
\* the catch block answers; the other promise is neither awaited nor
\* cancelled.
PromiseSettles(leg, next) ==
    /\ LET lk == [lookups EXCEPT ![leg] = next]
       IN  IF pc = "awaiting" /\ next.st = "rejected"
           THEN CatchBlock(lk, next.error)
           ELSE /\ lookups' = lk
                /\ UNCHANGED <<pc, response, tripIndex, results, callLog>>
    /\ UNCHANGED <<browser, apiKeyEnv, mapsKeyEnv, route, xApiKey, body>>

\* `await fetch(..)` of one call comes back: it throws, or distanceMatrix
\* goes on to `await resp.json()`.
FetchSettles(leg, outcome) ==
    /\ lookups[leg].st = "pending"
    /\ lookups[leg].awaiting = "fetch"
    /\ PromiseSettles(leg, IF outcome.kind = "throw"
                           THEN distanceMatrixSettle(lookups[leg], outcome)
                           ELSE distanceMatrixFetched(lookups[leg]))

\* `await resp.json()` of one call comes back: it throws, or the status of
\* the body decides between `return data` and the throw.
BodySettles(leg, outcome) ==
    /\ lookups[leg].st = "pending"
    /\ lookups[leg].awaiting = "json"
    /\ PromiseSettles(leg, distanceMatrixSettle(lookups[leg], outcome))

AllFulfilled == \A leg \in Legs : lookups[leg].st = "fulfilled"

\* The ranked handler after `await Promise.all`: scoring, sorting, response.
RankedContinue ==
    /\ pc = "awaiting"
    /\ route = "/matches/ranked"
    /\ AllFulfilled
    /\ pc' = "responded"
    /\ response' = RankedResponse(body.mainTrip, body.candidates.items,
                                  lookups.toPickup.data, lookups.toDest.data)
    /\ UNCHANGED <<browser, apiKeyEnv, mapsKeyEnv, route, xApiKey, body, tripIndex, results,
                   lookups, callLog>>

\* The calendar-check handler after `await Promise.all`: the summary of the
\* current group is pushed, then the loop goes on with the next group.
CalendarContinue ==
    /\ pc = "awaiting"
    /\ route = "/matches/calendar-check"
    /\ AllFulfilled
    /\ LET items == body.trips.items
           group == items[tripIndex]
           acc   == Aggregate(group.mainTrip, group.candidates.items,
                              Len(group.candidates.items), lookups.toPickup.data,
                              lookups.toDest.data, ThresholdOf(body.detourThreshold))
       IN  RunCalendarLoop(items, tripIndex + 1,
                           Append(results, SummaryOf(group.mainTrip, acc)))
    /\ UNCHANGED <<browser, apiKeyEnv, mapsKeyEnv, route, xApiKey, body>>

----------------------------------------------------------------------------
(* POST /scrape-luma-event *)

\* A URL string is modelled as the sequence of the pieces it is made of, so
\* that replace and includes act on pieces; the empty sequence is "".
Url(pieces) == [t |-> "string", pieces |-> pieces]

\* String.prototype.replace with a string pattern: the first occurrence only.
ReplaceFirst(pieces, pattern, replacement) ==
    LET hits == {i \in DOMAIN pieces : pieces[i] = pattern}
    IN  IF hits = {} THEN pieces ELSE [pieces EXCEPT ![Min(hits)] = replacement]

normalizeLumaUrl(url) ==
    Url(ReplaceFirst(ReplaceFirst(url.pieces, "https://www.luma.com", "https://lu.ma"),
                     "https://luma.com", "https://lu.ma"))

\* url.includes("lu.ma"): the pieces of the model that contain "lu.ma".
PiecesWithLuMa == {"https://lu.ma", "lu.ma"}
IncludesLuMa(url) == \E i \in DOMAIN url.pieces : url.pieces[i] \in PiecesWithLuMa

Urls ==
    {Undefined, Url(<<>>),
     Url(<<"https://lu.ma", "/evt">>),
     Url(<<"https://www.luma.com", "/evt">>),
     Url(<<"https://luma.com", "/evt">>),
     Url(<<"https://example.com", "/evt">>),
     Url(<<"https://example.com", "/?ref=", "lu.ma">>)}

ScrapeBodies == {[url |-> u] : u \in Urls}

\* The handler up to `try`: the answer it gives at once, or NoResponse.
ScrapeEarlyResponse(url) ==
    IF url = Undefined \/ url = Null \/ url.pieces = <<>>
    THEN BadRequest("Missing URL")
    ELSE IF ~IncludesLuMa(normalizeLumaUrl(url))
    THEN BadRequest("Please provide a valid Luma event URL.")
    ELSE NoResponse

\* The awaits of the try block in program order; pc names the one the handler
\* is suspended at.  `await chromium.executablePath()` is skipped on darwin
\* (isLocal).
ScrapeAwaits ==
    <<"executablePath", "launch", "newPage", "goto", "waitForSelector", "evaluate", "close">>

FirstAwait(isLocal) == IF isLocal THEN "launch" ELSE "executablePath"

IndexOfAwait(name) == CHOOSE i \in DOMAIN ScrapeAwaits : ScrapeAwaits[i] = name

\* The outcomes of an awaited promise.
AwaitOutcomes == {"fulfils", "rejects"}

\* error.message of the rejection of an await: the text is the library's, the
\* model only tells the awaits apart.
ScrapeErrorOf(name) == name \o " failed"

\* The value extracted from the page and post-processed, left opaque.
ScrapedData == "event data"

PostScrapeLumaEvent(reqBody, isLocal) ==
    /\ pc = "idle"
    /\ route' = "/scrape-luma-event"
    /\ body' = reqBody
    /\ LET early == ScrapeEarlyResponse(reqBody.url)
       IN  IF early # NoResponse
           THEN pc' = "responded" /\ response' = early
           ELSE pc' = FirstAwait(isLocal) /\ response' = NoResponse
    /\ UNCHANGED <<browser, apiKeyEnv, mapsKeyEnv, xApiKey, tripIndex, results,
                   lookups, callLog>>

\* catch (error) of the scraper: the 500 response and nothing else; `browser`
\* is a const of the try block and is out of scope here.  This is also where
\* a rejection of browser.close() ends, with the browser as it was.
ScrapeCatch(message) ==
    /\ pc' = "responded"
    /\ response' = ServerError(message)
    /\ UNCHANGED browser

\* The promise the handler is suspended at settles and the handler runs to
\* its next await, to its response, or to its catch block.
ScrapeAwaitSettles(outcome) ==
    /\ route = "/scrape-luma-event"
    /\ pc \in {ScrapeAwaits[i] : i \in DOMAIN ScrapeAwaits}
    /\ outcome \in AwaitOutcomes
    /\ IF outcome = "rejects"
       THEN ScrapeCatch(ScrapeErrorOf(pc))
       ELSE /\ browser' = CASE pc = "launch" -> "open"
                            [] pc = "close"  -> "closed"
                            [] OTHER         -> browser
            /\ IF pc = "close"
               THEN /\ pc' = "responded"
                    /\ response' = Json("200", [success |-> TRUE,
                                                url |-> normalizeLumaUrl(body.url),
                                                data |-> ScrapedData])
               ELSE /\ pc' = ScrapeAwaits[IndexOfAwait(pc) + 1]
                    /\ UNCHANGED response
    /\ UNCHANGED <<apiKeyEnv, mapsKeyEnv, route, xApiKey, body, tripIndex, results,
                   lookups, callLog>>

ScrapeRequest ==
    /\ pc = "idle"
    /\ \E b \in ScrapeBodies, isLocal \in BOOLEAN : PostScrapeLumaEvent(b, isLocal)

ScrapeStep == \E outcome \in AwaitOutcomes : ScrapeAwaitSettles(outcome)

\* The requests are drawn while the server is idle.
DenyRequest ==
    /\ pc = "idle"
    /\ \E path \in {"/matches/ranked", "/matches/calendar-check"}, h \in Headers :
          Deny(path, h)

RankedRequest ==
    /\ pc = "idle"
    /\ \E h \in Headers, b \in RankedBodies : PostMatchesRanked(h, b)

CalendarRequest ==
    /\ pc = "idle"
    /\ \E h \in Headers, b \in CalendarBodies : PostCalendarCheck(h, b)

FetchStep ==
    \E leg \in {l \in Legs : lookups[l].st = "pending"} :
        \E outcome \in FetchOutcomes : FetchSettles(leg, outcome)

BodyStep ==
    \E leg \in {l \in Legs : lookups[l].st = "pending"} :
        \E outcome \in BodyOutcomes(lookups[leg]) : BodySettles(leg, outcome)

Next ==
    \/ DenyRequest
    \/ RankedRequest
    \/ CalendarRequest
    \/ FetchStep
    \/ BodyStep
    \/ RankedContinue
    \/ CalendarContinue
    \/ ScrapeRequest
    \/ ScrapeStep

Spec == Init /\ [][Next]_vars

----------------------------------------------------------------------------
(* Properties of POST /matches/ranked *)

\* The ranked handler has answered with success.
RankedAnswered ==
    /\ route = "/matches/ranked"
    /\ pc = "responded"
    /\ response.status = "200"

RankedCandidates == body.candidates.items
RankedMatches == response.body.matches

\* The matrix cells of candidate i as the provider returned them.
PickupCell(i) == lookups.toPickup.data.rows[1].elements[i]
DropCell(i) == lookups.toDest.data.rows[i].elements[1]
Routable(i) == PickupCell(i).status = "OK" /\ DropCell(i).status = "OK"

Occurrences(s, x) == Cardinality({i \in DOMAIN s : s[i] = x})

IdsOf(s) == [i \in DOMAIN s |-> s[i].id]

\* C1: a successful Rank matches response holds exactly one MatchResult per
\* candidate: same length, and every candidate id as often as in the input,
\* unroutable candidates included.
C1_RankedIsPermutation ==
    RankedAnswered =>
        /\ Len(RankedMatches) = Len(RankedCandidates)
        /\ \A i \in DOMAIN RankedCandidates :
              Occurrences(IdsOf(RankedMatches), RankedCandidates[i].id)
                = Occurrences(IdsOf(RankedCandidates), RankedCandidates[i].id)
        /\ \A j \in DOMAIN RankedMatches :
              \E i \in DOMAIN RankedCandidates :
                  RankedCandidates[i].id = RankedMatches[j].id

\* Two candidates with the same id, one routable and one not, were ranked.
C1_Witness ==
    /\ RankedAnswered
    /\ Len(RankedCandidates) >= 2
    /\ RankedCandidates[1].id = RankedCandidates[2].id
    /\ Routable(1)
    /\ ~Routable(2)

\* C2: in a Rank matches response every null detour comes after every
\* non-null detour, and adjacent non-null detours are in ascending order.
C2_RankedOrder ==
    RankedAnswered =>
        LET m == RankedMatches
        IN  /\ \A i, j \in DOMAIN m :
                  (m[i].detourSeconds = Null /\ m[j].detourSeconds # Null) => j < i
            /\ \A i \in 1..(Len(m) - 1) :
                  (m[i].detourSeconds # Null /\ m[i + 1].detourSeconds # Null)
                      => m[i].detourSeconds.v <= m[i + 1].detourSeconds.v

\* An unroutable candidate came first in the input and a candidate with a
\* negative detour second: the sort had to move them.
C2_Witness ==
    /\ RankedAnswered
    /\ Len(RankedCandidates) >= 2
    /\ ~Routable(1)
    /\ Routable(2)
    /\ RankedMatches[1].detourSeconds # Null
    /\ RankedMatches[1].detourSeconds.v < 0

IsUnrouted(m) == m.detourSeconds = Null

\* The ids of the unroutable candidates, in input order.
UnroutableIds ==
    LET tagged == [i \in DOMAIN RankedCandidates |->
                      [id |-> RankedCandidates[i].id,
                       detourSeconds |-> IF Routable(i) THEN Num(0) ELSE Null]]
    IN  IdsOf(SelectSeq(tagged, IsUnrouted))

\* C3: the null-detour entries of a Rank matches response are in the order
\* their candidates had in the input.
C3_UnroutableKeepInputOrder ==
    RankedAnswered => IdsOf(SelectSeq(RankedMatches, IsUnrouted)) = UnroutableIds

\* Two unroutable candidates with different ids were ranked.
C3_Witness ==
    /\ RankedAnswered
    /\ Len(RankedCandidates) >= 2
    /\ RankedCandidates[1].id # RankedCandidates[2].id
    /\ ~Routable(1)
    /\ ~Routable(2)

\* C4: a MatchResult has a detour iff it has no error field; a candidate with
\* a not-OK leg gets null and the error marker, a candidate with both legs OK
\* a number and no error.
C4_DetourIffNoError ==
    RankedAnswered =>
        /\ \A j \in DOMAIN RankedMatches :
              /\ (RankedMatches[j].detourSeconds # Null) <=> ("error" \notin DOMAIN RankedMatches[j])
              /\ RankedMatches[j].detourSeconds # Null => RankedMatches[j].detourSeconds.t = "number"
        /\ LET got == [j \in DOMAIN RankedMatches |->
                          <<RankedMatches[j].id, RankedMatches[j].detourSeconds # Null>>]
               want == [i \in DOMAIN RankedCandidates |->
                          <<RankedCandidates[i].id, Routable(i)>>]
           IN  \A i \in DOMAIN want : Occurrences(got, want[i]) = Occurrences(want, want[i])

\* One candidate with a not-OK origin leg and one with both legs OK were ranked.
C4_Witness ==
    /\ RankedAnswered
    /\ Len(RankedCandidates) >= 2
    /\ PickupCell(1).status # "OK"
    /\ DropCell(1).status = "OK"
    /\ Routable(2)

\* The detour of ranked candidate i, from the two cells of index i.
RankedDetour(i) ==
    PickupCell(i).duration.value + RankedCandidates[i].directDuration.v
        + DropCell(i).duration.value - body.mainTrip.directDuration.v

C5_RankedPart ==
    RankedAnswered =>
        LET got == [j \in DOMAIN RankedMatches |->
                      <<RankedMatches[j].id, RankedMatches[j].detourSeconds>>]
            want == [i \in DOMAIN RankedCandidates |->
                      <<RankedCandidates[i].id,
                        IF Routable(i) THEN Num(RankedDetour(i)) ELSE Null>>]
        IN  \A i \in DOMAIN want :
                Routable(i) => Occurrences(got, want[i]) = Occurrences(want, want[i])

----------------------------------------------------------------------------
(* Properties of POST /matches/calendar-check *)

CalendarTrips == body.trips.items

\* The calendar handler is about to score the group at tripIndex.
CalendarResuming ==
    /\ route = "/matches/calendar-check"
    /\ pc = "awaiting"
    /\ AllFulfilled

CurrentGroup == CalendarTrips[tripIndex]
CurrentCandidates == CurrentGroup.candidates.items

\* The detour of candidate i of the group being scored.
GroupDetour(i) ==
    PickupCell(i).duration.value + CurrentCandidates[i].directDuration.v
        + DropCell(i).duration.value - CurrentGroup.mainTrip.directDuration.v

\* The threshold of the request: the given one, 1800 when none is given.
RequestThreshold ==
    IF body.detourThreshold = Undefined THEN 1800 ELSE body.detourThreshold.v

\* The candidates of the group being scored that count as matches.
Counted ==
    {i \in DOMAIN CurrentCandidates : Routable(i) /\ GroupDetour(i) <= RequestThreshold}

\* The summary the step pushes for the group being scored.
PushedSummary == results'[Len(results) + 1]

C5_CalendarStep ==
    CalendarResuming =>
        /\ \A i \in Counted :
              /\ PushedSummary.bestDetour # Null
              /\ PushedSummary.bestDetour.v <= GroupDetour(i)
        /\ PushedSummary.bestDetour # Null =>
              \E i \in DOMAIN CurrentCandidates :
                  Routable(i) /\ PushedSummary.bestDetour = Num(GroupDetour(i))

\* C5: the detour of a routable candidate is legA + candidateDirect + legB -
\* primaryDirect with both legs taken at the candidate's own index, unclamped:
\* as the value of its MatchResult in Rank matches, and as the value the
\* calendar check compares and reports as bestDetour.
C5_DetourExact == [](C5_RankedPart) /\ [][C5_CalendarStep]_vars

\* A routable candidate with a negative detour was ranked.
C5_Witness ==
    /\ RankedAnswered
    /\ \E i \in DOMAIN RankedCandidates :
          /\ Routable(i)
          /\ RankedDetour(i) < 0
          /\ \E j \in DOMAIN RankedMatches :
                RankedMatches[j].detourSeconds = Num(RankedDetour(i))

----------------------------------------------------------------------------
(* Validation *)

FieldOrder == <<"originLat", "originLng", "destLat", "destLng", "directDuration">>

Lacks(obj, f) == obj[f] = Undefined \/ obj[f] = Null
Complete(obj) == \A k \in DOMAIN FieldOrder : ~Lacks(obj, FieldOrder[k])
FirstLacking(obj, k) ==
    /\ Lacks(obj, FieldOrder[k])
    /\ \A j \in 1..(k - 1) : ~Lacks(obj, FieldOrder[j])

\* The ranked handler ran on a body that has a primary trip and a candidate list.
RankedRan ==
    /\ route = "/matches/ranked"
    /\ body # Undefined
    /\ body.mainTrip.t = "object"
    /\ body.candidates.t = "array"

ValidationError(message) ==
    [status |-> "400", body |-> [success |-> FALSE, error |-> message]]

\* C6: in Rank matches a primary trip or candidate lacking a required field
\* (absent or null) gives a validation error naming the entity (mainTrip, or
\* the first offending candidates[i]) and its first missing field, with no
\* gateway call; zero is not missing.
C6_MissingFieldRejected ==
    RankedRan =>
        /\ \A k \in DOMAIN FieldOrder :
              FirstLacking(body.mainTrip, k) =>
                  /\ response = ValidationError("mainTrip is missing required field: "
                                                \o FieldOrder[k])
                  /\ callLog = <<>>
        /\ Complete(body.mainTrip) =>
              \A i \in DOMAIN RankedCandidates : \A k \in DOMAIN FieldOrder :
                  ( /\ FirstLacking(RankedCandidates[i], k)
                    /\ \A h \in 1..(i - 1) : Complete(RankedCandidates[h]) )
                  => /\ response = ValidationError("candidates[" \o ToString(i - 1)
                                        \o "] is missing required field: " \o FieldOrder[k])
                     /\ callLog = <<>>
        /\ ( /\ Complete(body.mainTrip)
             /\ \A i \in DOMAIN RankedCandidates : Complete(RankedCandidates[i]) )
           => response.status # "400"

\* A primary trip with zero-valued fields and a first candidate with a zero
\* field passed; the second candidate, lacking two fields, was named with the
\* first of them.
C6_Witness ==
    /\ RankedRan
    /\ body.mainTrip.directDuration = Num(0)
    /\ Len(RankedCandidates) = 2
    /\ RankedCandidates[1].directDuration = Num(0)
    /\ Complete(RankedCandidates[1])
    /\ Lacks(RankedCandidates[2], "originLng")
    /\ Lacks(RankedCandidates[2], "destLat")
    /\ response = ValidationError("candidates[1] is missing required field: originLng")
    /\ callLog = <<>>

ZeroSummary(mainTrip) ==
    [id |-> mainTrip.id, hasMatch |-> FALSE, matchCount |-> 0, bestDetour |-> Null]

\* C7: an empty candidate list never causes a gateway call.  Rank matches with
\* a valid primary trip and no candidates answers success with no matches and
\* no call; in calendar check a group without candidates gets the zero
\* summary and no call is ever made for it.
C7_EmptyCandidatesNoCall ==
    /\ ( /\ RankedRan
         /\ Complete(body.mainTrip)
         /\ RankedCandidates = <<>> )
       => /\ response = [status |-> "200", body |-> [success |-> TRUE, matches |-> <<>>]]
          /\ callLog = <<>>
    /\ route = "/matches/calendar-check" =>
          /\ \A e \in DOMAIN callLog :
                CalendarTrips[callLog[e].trip].candidates.items # <<>>
          /\ \A k \in DOMAIN results :
                CalendarTrips[k].candidates.items = <<>>
                    => results[k] = ZeroSummary(CalendarTrips[k].mainTrip)
          /\ response.status = "200" =>
                \A k \in DOMAIN CalendarTrips :
                    CalendarTrips[k].candidates.items = <<>>
                        => response.body.results[k] = ZeroSummary(CalendarTrips[k].mainTrip)

\* A batch of a group with candidates and a group without was answered: the
\* only two calls are those of the first group.
C7_Witness ==
    /\ route = "/matches/calendar-check"
    /\ response.status = "200"
    /\ Len(CalendarTrips) = 2
    /\ CalendarTrips[1].candidates.items # <<>>
    /\ CalendarTrips[2].candidates.items = <<>>
    /\ Len(callLog) = 2
    /\ response.body.results[2] = ZeroSummary(CalendarTrips[2].mainTrip)

C8_Shape ==
    \A k \in DOMAIN results :
        /\ results[k].hasMatch <=> results[k].matchCount > 0
        /\ results[k].bestDetour = Null <=> results[k].matchCount = 0

C8_Step ==
    CalendarResuming =>
        /\ PushedSummary.matchCount = Cardinality(Counted)
        /\ PushedSummary.hasMatch <=> Counted # {}
        /\ PushedSummary.bestDetour = Null <=> Counted = {}
        /\ Counted # {} =>
              PushedSummary.bestDetour = Num(Min({GroupDetour(i) : i \in Counted}))

\* C8: for every group of a calendar check, matchCount is the number of
\* routable candidates with detour <= threshold, hasMatch says whether it is
\* positive, and bestDetour is null iff it is 0 and the least counted detour
\* otherwise.
C8_SummaryAggregates == [](C8_Shape) /\ [][C8_Step]_vars

\* With the default threshold, a group whose candidates have the detours 1800
\* and 3500 was summarised as one match with best detour 1800.
C8_Witness ==
    /\ route = "/matches/calendar-check"
    /\ response.status = "200"
    /\ body.detourThreshold = Undefined
    /\ Len(CalendarTrips) = 1
    /\ Len(CalendarTrips[1].candidates.items) = 2
    /\ PickupCell(1).status = "OK" /\ PickupCell(1).duration.value = 1700
    /\ DropCell(1).status = "OK" /\ DropCell(1).duration.value = 0
    /\ PickupCell(2).status = "OK" /\ PickupCell(2).duration.value = 1700
    /\ DropCell(2).status = "OK" /\ DropCell(2).duration.value = 1700
    /\ response.body.results[1].matchCount = 1
    /\ response.body.results[1].bestDetour = Num(1800)

----------------------------------------------------------------------------
(* Gateway failures *)

Rejected == {leg \in Legs : lookups[leg].st = "rejected"}

\* C9: a gateway failure is fatal to the operation: the response is a single
\* error with the failure's message, without matches and without results,
\* whatever summaries earlier groups had produced.
C9_GatewayFailureFatal ==
    Rejected # {} =>
        /\ pc = "responded"
        /\ response.status = "500"
        /\ DOMAIN response.body = {"success", "error"}
        /\ response.body.success = FALSE
        /\ \E leg \in Rejected : response.body.error = lookups[leg].error
        /\ mapsKeyEnv \in {NoKey, ""} =>
              response.body.error = "GOOGLE_MAPS_API_KEY is not configured"

\* The second group of a batch failed after the first had been summarised
\* with a match.
C9_Witness ==
    /\ route = "/matches/calendar-check"
    /\ Rejected # {}
    /\ tripIndex = 2
    /\ Len(results) = 1
    /\ results[1].hasMatch
    /\ response.status = "500"

\* C10: a successful calendar check returns one summary per group in input
\* order: as many results as trips, results[k] with the id of trips[k].mainTrip.
C10_OneSummaryPerGroup ==
    (route = "/matches/calendar-check" /\ response.status = "200") =>
        /\ Len(response.body.results) = Len(CalendarTrips)
        /\ \A k \in DOMAIN CalendarTrips :
              response.body.results[k].id = CalendarTrips[k].mainTrip.id

\* A batch of a group without candidates followed by a group with candidates
\* was answered.
C10_Witness ==
    /\ route = "/matches/calendar-check"
    /\ response.status = "200"
    /\ Len(CalendarTrips) = 2
    /\ CalendarTrips[1].candidates.items = <<>>
    /\ CalendarTrips[2].candidates.items # <<>>
    /\ CalendarTrips[1].mainTrip.id # CalendarTrips[2].mainTrip.id
    /\ Len(response.body.results) = 2

----------------------------------------------------------------------------
(* Calendar check: validation comes first *)

CalendarRan == route = "/matches/calendar-check" /\ body # Undefined

GroupInvalid(group) ==
    \/ group.mainTrip \in {Undefined, Null}
    \/ group.candidates \in {Undefined, Null}
    \/ ~Complete(group.mainTrip)
    \/ \E i \in DOMAIN group.candidates.items : ~Complete(group.candidates.items[i])

TripsInvalid ==
    \/ body.trips \in {Undefined, Null}
    \/ body.trips.t # "array"
    \/ body.trips.items = <<>>
    \/ \E k \in DOMAIN body.trips.items : GroupInvalid(body.trips.items[k])

\* C11: in calendar check every validation failure is detected before any
\* external call.  When trips is missing or empty, or any group at any
\* position lacks mainTrip or candidates or has a required field absent or
\* null, the answer is a validation error and no gateway call was made for
\* the whole batch, the valid groups before the invalid one included; and no
\* validation error is ever sent after a gateway call.
C11_ValidationBeforeCalls ==
    CalendarRan =>
        /\ TripsInvalid =>
              /\ pc = "responded"
              /\ response.status = "400"
              /\ response.body.success = FALSE
              /\ callLog = <<>>
              /\ \A leg \in Legs : lookups[leg] = NoLookup
        /\ response.status = "400" => TripsInvalid /\ callLog = <<>>

\* A batch whose first group is valid and has candidates and whose second
\* group has a candidate lacking a field was refused without any call.
C11_Witness ==
    /\ CalendarRan
    /\ body.trips.t = "array"
    /\ Len(body.trips.items) = 2
    /\ ~GroupInvalid(body.trips.items[1])
    /\ body.trips.items[1].candidates.items # <<>>
    /\ body.trips.items[2].mainTrip # Undefined
    /\ body.trips.items[2].candidates # Undefined
    /\ Complete(body.trips.items[2].mainTrip)
    /\ GroupInvalid(body.trips.items[2])
    /\ response = ValidationError("trips[1].candidates[1] is missing required field: originLat")
    /\ callLog = <<>>

----------------------------------------------------------------------------
(* Calendar check: the detour threshold *)

\* The number of routable candidates of the group being scored whose detour
\* is at most `limit`.
WithinLimit(limit) ==
    Cardinality({i \in DOMAIN CurrentCandidates : Routable(i) /\ GroupDetour(i) <= limit})

C12_Step ==
    CalendarResuming =>
        /\ body.detourThreshold = Undefined =>
              /\ PushedSummary.matchCount = WithinLimit(1800)
              /\ PushedSummary.bestDetour # Null => PushedSummary.bestDetour.v <= 1800
        /\ body.detourThreshold # Undefined =>
              /\ PushedSummary.matchCount = WithinLimit(body.detourThreshold.v)
              /\ PushedSummary.bestDetour # Null =>
                    PushedSummary.bestDetour.v <= body.detourThreshold.v

\* C12: a calendar check called without a detour threshold uses 1800; when a
\* threshold is supplied, that value is the one every group of the batch is
\* scored with.
C12_ThresholdDefault == [][C12_Step]_vars

\* A batch of two groups was scored with the supplied threshold 600: the
\* first group matched with detour 100, the second with detour 600.
C12_Witness ==
    /\ route = "/matches/calendar-check"
    /\ response.status = "200"
    /\ body.detourThreshold = Num(600)
    /\ Len(CalendarTrips) = 2
    /\ response.body.results[1].bestDetour = Num(100)
    /\ response.body.results[2].matchCount = 1
    /\ response.body.results[2].bestDetour = Num(600)

----------------------------------------------------------------------------
(* Outbound provider requests *)

\* The requests that left for the provider, as positions of the call log.
Outbound == {e \in DOMAIN callLog : callLog[e].fetched}

OutboundFor(k, leg) == {e \in Outbound : callLog[e].trip = k /\ callLog[e].leg = leg}

NonEmptyGroups == {k \in DOMAIN CalendarTrips : CalendarTrips[k].candidates.items # <<>>}

\* C14: the provider gets exactly two requests per primary trip with a
\* non-empty candidate list, whatever the number of candidates, and a request
\* is never repeated.  A successful Rank matches with candidates made exactly
\* 2; a successful calendar check made exactly 2 for each group with
\* candidates; a batch that failed at group k made none for a later group.
C14_TwoRequestsPerTrip ==
    /\ \A k \in 0..MaxTrips : \A leg \in Legs : Cardinality(OutboundFor(k, leg)) <= 1
    /\ ( /\ RankedRan
         /\ response.status = "200"
         /\ RankedCandidates # <<>> )
       => /\ Cardinality(Outbound) = 2
          /\ \A leg \in Legs : Cardinality(OutboundFor(0, leg)) = 1
    /\ (CalendarRan /\ response.status = "200") =>
          /\ Cardinality(Outbound) = 2 * Cardinality(NonEmptyGroups)
          /\ \A k \in NonEmptyGroups : \A leg \in Legs : Cardinality(OutboundFor(k, leg)) = 1
    /\ (CalendarRan /\ response.status = "500") =>
          /\ \A e \in DOMAIN callLog : callLog[e].trip <= tripIndex
          /\ \A k \in NonEmptyGroups : \A leg \in Legs :
                k > tripIndex => OutboundFor(k, leg) = {}

\* A batch of a group with two candidates and a group with one candidate was
\* answered with four requests made, two for each group.
C14_Witness ==
    /\ CalendarRan
    /\ response.status = "200"
    /\ Len(CalendarTrips) = 2
    /\ Len(CalendarTrips[1].candidates.items) = 2
    /\ Len(CalendarTrips[2].candidates.items) = 1
    /\ Cardinality(Outbound) = 4
    /\ Len(callLog) = 4

----------------------------------------------------------------------------
(* Calendar check: one group at a time *)

\* The primary trips the calls of the log were made for, in call order.
TripsOfLog == [e \in DOMAIN callLog |-> callLog[e].trip]

C15_Step ==
    (route = "/matches/calendar-check" /\ callLog # <<>> /\ callLog' # callLog) =>
        /\ \A leg \in Legs : lookups[leg].st = "fulfilled"
        /\ Len(callLog') = Len(callLog) + 2
        /\ SubSeq(callLog', 1, Len(callLog)) = callLog
        /\ \A e \in (Len(callLog) + 1)..Len(callLog') :
              /\ callLog'[e].trip = tripIndex'
              /\ callLog'[e].trip > callLog[Len(callLog)].trip

\* C15: the groups of a calendar check are processed strictly one after the
\* other in input order.  The two lookups of a later group are issued only in
\* a step taken when both lookups of the group before it have completed, so
\* no more than the two calls of one group are outstanding at any moment.
C15_GroupsSequential ==
    /\ [](route = "/matches/calendar-check" =>
             /\ \A e \in 1..(Len(callLog) - 1) : TripsOfLog[e] <= TripsOfLog[e + 1]
             /\ \A e \in DOMAIN callLog : callLog[e].trip <= tripIndex)
    /\ [][C15_Step]_vars

\* Both groups of a batch had their lookups issued, those of the second group
\* after both of the first; the second group's are in flight.
C15_Witness ==
    /\ route = "/matches/calendar-check"
    /\ pc = "awaiting"
    /\ tripIndex = 2
    /\ Len(results) = 1
    /\ TripsOfLog = <<1, 1, 2, 2>>
    /\ \A leg \in Legs : lookups[leg].st = "pending"

----------------------------------------------------------------------------
(* The two lookups of one primary trip and the await on them *)

Pending == {leg \in Legs : lookups[leg].st = "pending"}

\* The handler has left the lookup step of the calls it made last: it has
\* answered (with the ranking, the summaries or a failure).
PastLookups == pc = "responded" /\ callLog # <<>>

\* C16 as stated: the handler proceeds past the lookup step, to scoring or to
\* reporting a failure, only after both lookups have run to completion; when
\* one lookup fails, the failure is raised only after the other has completed.
C16_BarrierOnFailure ==
    PastLookups => Pending = {}

C16_Concurrent ==
    /\ (lookups.toPickup = NoLookup) <=> (lookups.toDest = NoLookup)
    /\ Len(callLog) % 2 = 0
    /\ \A e \in DOMAIN callLog :
          e % 2 = 1 => /\ callLog[e].leg = "toPickup"
                       /\ callLog[e + 1].leg = "toDest"
                       /\ callLog[e + 1].trip = callLog[e].trip

C16_Scoring ==
    ( /\ pc = "awaiting"
      /\ response'.status = "200" \/ Len(results') > Len(results) )
    => \A leg \in Legs : lookups[leg].st = "fulfilled"

\* C16, amended: the two lookups of a primary trip are issued together; the
\* handler proceeds to scoring only after both have completed; when one
\* fails, the failure is raised as soon as that lookup fails, whether or not
\* the other has completed: the handler never goes on awaiting beside a
\* failed lookup, and a failure response has a failed lookup behind it.
C16_FailFastBarrier ==
    /\ [](/\ C16_Concurrent
          /\ pc = "awaiting" => Rejected = {}
          /\ (PastLookups /\ response.status = "200") => Pending = {} /\ Rejected = {}
          /\ (PastLookups /\ response.status = "500") => Rejected # {})
    /\ [][C16_Scoring]_vars

\* The failure of the lookup towards the primary trip's destination was
\* answered while the lookup from its origin was still in flight.
C16_Witness ==
    /\ route = "/matches/ranked"
    /\ pc = "responded"
    /\ response.status = "500"
    /\ lookups.toDest.st = "rejected"
    /\ response.body.error = lookups.toDest.error
    /\ lookups.toPickup.st = "pending"
    /\ lookups.toPickup.fetched

----------------------------------------------------------------------------
(* Cells the provider could not route *)

\* Both grids came back with the top-level status OK.
BothGridsOK == \A leg \in Legs : lookups[leg].st = "fulfilled"

C17_Ranked ==
    (route = "/matches/ranked" /\ pc = "responded" /\ BothGridsOK) =>
        /\ response.status = "200"
        /\ response.body.success = TRUE
        /\ Len(RankedMatches) = Len(RankedCandidates)
        /\ \A i \in DOMAIN RankedCandidates :
              Routable(i) =>
                  \E j \in DOMAIN RankedMatches :
                      /\ RankedMatches[j].id = RankedCandidates[i].id
                      /\ RankedMatches[j].detourSeconds = Num(RankedDetour(i))

C17_Step ==
    /\ (route = "/matches/ranked" /\ pc = "awaiting" /\ BothGridsOK) =>
          response'.status = "200"
    /\ CalendarResuming =>
          /\ pc' = "awaiting" \/ response'.status = "200"
          /\ Len(results') > Len(results)
          /\ PushedSummary.matchCount = Cardinality(Counted)
          /\ Counted # {} =>
                PushedSummary.bestDetour = Num(Min({GroupDetour(i) : i \in Counted}))

\* C17: a cell that is not OK never aborts a request.  When both grids have
\* the top-level status OK, Rank matches and calendar check answer success
\* however many cells are not OK: in Rank matches every other candidate still
\* has the detour of its own cells, and in calendar check the candidate is
\* passed over while count and best detour are those of the others.
C17_UnroutableNeverAborts == [](C17_Ranked) /\ [][C17_Step]_vars

\* The first candidate has a cell that is not OK and is reported unroutable;
\* the second has the detour of its own cells; the answer is a success.
C17_Witness ==
    /\ RankedAnswered
    /\ BothGridsOK
    /\ Len(RankedCandidates) = 2
    /\ PickupCell(1).status # "OK"
    /\ Routable(2)
    /\ \E j \in DOMAIN RankedMatches :
          RankedMatches[j].id = RankedCandidates[1].id /\ IsUnrouted(RankedMatches[j])
    /\ \E j \in DOMAIN RankedMatches :
          /\ RankedMatches[j].id = RankedCandidates[2].id
          /\ RankedMatches[j].detourSeconds = Num(RankedDetour(2))

----------------------------------------------------------------------------
(* The API key gate *)

Gated == route \in {"/matches/ranked", "/matches/calendar-check"}

\* An API key is configured: API_KEY is set to a key, not left unset or empty.
KeyConfigured == apiKeyEnv # NoKey /\ apiKeyEnv # ""

\* The handler behind the gate ran: it read the request body.
HandlerRan == body # Undefined

\* C18: with an API key configured, a request to Rank matches or calendar
\* check whose x-api-key header is absent or differs from the key is answered
\* 401 and the handler never runs: no validation result is disclosed and no
\* gateway call is made.  With no API key configured every request passes to
\* the handler.
C18_ApiKeyGate ==
    Gated =>
        /\ (KeyConfigured /\ xApiKey # Str(apiKeyEnv)) =>
              /\ pc = "responded"
              /\ response = [status |-> "401",
                             body |-> [success |-> FALSE,
                                       error |-> "Invalid or missing API key"]]
              /\ ~HandlerRan
              /\ callLog = <<>>
              /\ results = <<>>
              /\ \A leg \in Legs : lookups[leg] = NoLookup
        /\ (KeyConfigured /\ xApiKey = Str(apiKeyEnv)) =>
              HandlerRan /\ response.status # "401"
        /\ ~KeyConfigured => HandlerRan /\ response.status # "401"

\* With a key configured, a request without the header was refused before
\* the handler ran.
C18_Witness ==
    /\ route = "/matches/calendar-check"
    /\ apiKeyEnv = "secret"
    /\ xApiKey = Undefined
    /\ pc = "responded"
    /\ response.status = "401"
    /\ ~HandlerRan
    /\ callLog = <<>>

----------------------------------------------------------------------------
(* The scraper's browser *)

ScrapeAnswered == route = "/scrape-luma-event" /\ pc = "responded"

\* C19: in scrape-luma-event every browser that was launched has been closed
\* by the time the response is sent, on every path: after a successful
\* scrape, and when page creation, navigation, the wait for the title element
\* or the extraction fails and the 500 response is returned.
C19_BrowserClosedAtResponse ==
    ScrapeAnswered => browser # "open"

\* C19, the part that holds: a success response is sent with the
\* browser closed, a response sent before the launch leaves no browser, and
\* a browser left open goes with a 500.
C19_ClosedOnSuccess ==
    ScrapeAnswered =>
        /\ response.status = "200" => browser = "closed"
        /\ response.status = "400" => browser = "none"
        /\ browser = "open" => response.status = "500"

\* The wait for the title element failed: the 500 response was sent and the
\* browser is still open.
C19_LeakReached ==
    /\ ScrapeAnswered
    /\ response = [status |-> "500",
                   body |-> [success |-> FALSE, error |-> "waitForSelector failed"]]
    /\ browser = "open"

====
